---- MODULE Spec2Model ----
(***************************************************************************)
(* magpie: four producer goroutines (daylight, day phase, season, weather) *)
(* hand MqttCronMessage values over one unbuffered channel to MessageLoop, *)
(* which publishes each of them to the MQTT broker.                        *)
(*                                                                         *)
(* Environment variables are fixed when the process starts and each is     *)
(* looked up once; the model draws the value of a variable in the step     *)
(* that looks it up and records it in env.  Strings the code only copies   *)
(* or concatenates are TLA+ strings; strings the code parses or rewrites   *)
(* (coordinates, region names) are sequences of one-character strings.     *)
(***************************************************************************)
EXTENDS Integers, Sequences, FiniteSets, TLC

VARIABLES
    exit,      \* "running", "fatal" (log.Fatal*: os.Exit(1)), "panic" (logger.Panic),
               \* "done" (main returned)
    fatalBy,   \* the task that ended the process, "none" while it runs
    mainPc,    \* position of main: "start", "connect", "go", "loop"
    env,       \* the environment variables looked up so far
    prefix,    \* main's prefixFromEnv
    pc,        \* position of each producer goroutine
    loc,       \* the locals of each producer's current loop iteration
    out,       \* per producer: the messages of the current iteration and the send position
    ticks,     \* loop iterations begun by all producers together
    calls,     \* HTTP calls made by DayLightAPICall and WeatherAPICall
    chan,      \* messages buffered in the channel ch
    nsent,     \* channel sends completed by producers
    pubPc,     \* position of MessageLoop: "idle", "recv", "publish", "returned"
    cur,       \* MessageLoop's m
    received,  \* messages MessageLoop has received, in order, with their origin
    broker,    \* calls of c.Publish, in order, with their outcome
    plog,      \* "MessageLoop published" log lines
    dlog       \* "... disabled." log lines per producer

vars == <<exit, fatalBy, mainPc, env, prefix, pc, loc, out, ticks, calls, chan,
          nsent, pubPc, cur, received, broker, plog, dlog>>

-----------------------------------------------------------------------------
(* Bounds of the model *)

\* loop iterations all producers together may begin
MaxTicks == 2

-----------------------------------------------------------------------------
(* Program constants *)

\* capacity of ch: make(chan MqttCronMessage) has no buffer
ChanCapBuffered == Len(<<"slot">>)
ChanCap == 0

\* quality of service MessageLoop passes to c.Publish
PublishQos == 0

DefaultPrefix == "/home.arpa"

Producers == {"daylight", "dayphase", "season", "weather"}

\* the order of the go statements of main
GoOrder == <<"daylight", "dayphase", "season", "weather">>

-----------------------------------------------------------------------------
(* Strings as sequences of characters *)

Upper == <<"A","B","C","D","E","F","G","H","I","J","K","L","M",
           "N","O","P","Q","R","S","T","U","V","W","X","Y","Z">>
Lower == <<"a","b","c","d","e","f","g","h","i","j","k","l","m",
           "n","o","p","q","r","s","t","u","v","w","x","y","z">>
Digits == {"0","1","2","3","4","5","6","7","8","9"}

\* strings.ToLower
ToLower(s) ==
    [i \in 1..Len(s) |->
        IF \E k \in 1..26 : Upper[k] = s[i]
        THEN Lower[CHOOSE k \in 1..26 : Upper[k] = s[i]]
        ELSE s[i]]

\* strings.Replace(s, old, new, -1) for one-character old and new
ReplaceAll(s, old, new) ==
    [i \in 1..Len(s) |-> IF s[i] = old THEN new ELSE s[i]]

\* strconv.ParseFloat succeeds: [sign] digits [. digits] with at least one digit
\* (exponents, hexadecimal, inf and nan are outside the inputs of the model)
ParseFloatAny(s) == TRUE
ParseFloatOk(s) ==
    LET body == IF Len(s) > 0 /\ s[1] \in {"+", "-"} THEN Tail(s) ELSE s
        dots == {i \in 1..Len(body) : body[i] = "."}
    IN  /\ \A i \in 1..Len(body) : body[i] \in Digits \cup {"."}
        /\ Cardinality(dots) <= 1
        /\ \E i \in 1..Len(body) : body[i] \in Digits

-----------------------------------------------------------------------------
(* The environment *)

\* os.LookupEnv results; Unread marks a variable not looked up yet
Unread == [read |-> FALSE, exists |-> FALSE, value |-> ""]
UnreadChars == [read |-> FALSE, exists |-> FALSE, value |-> <<>>]
Absent == [read |-> TRUE, exists |-> FALSE, value |-> ""]
AbsentChars == [read |-> TRUE, exists |-> FALSE, value |-> <<>>]
Present(v) == [read |-> TRUE, exists |-> TRUE, value |-> v]

HostLookups == {Absent, Present("tcp://127.0.0.1:1883")}
PrefixLookups == {Absent, Present("home")}
SeasonTopicLookups == {Absent, Present("cron/season")}
DayPhaseTopicLookups == {Absent, Present("cron/dayphase")}
DayLightTopicLookups == {Absent, Present("/cron/daylight")}
WeatherTopicLookups == {Absent, Present("cron/weather")}
LatitudeLookups ==
    {AbsentChars, Present(<<"5","2",".","0","7">>), Present(<<"n","o","r","t","h">>)}
LongitudeLookups ==
    {AbsentChars, Present(<<"-","4",".","2">>), Present(<<"4",",","2">>)}
RegionLookups ==
    {AbsentChars, Present(<<"n","o","o","r","d","-","h","o","l","l","a","n","d">>)}

-----------------------------------------------------------------------------
(* Messages *)

\* MqttCronMessage
MessageAlwaysRetained(topic, payload, retain) ==
    [topic |-> topic, payload |-> payload, retain |-> TRUE]
Message(topic, payload, retain) ==
    [topic |-> topic, payload |-> payload, retain |-> retain]

NoMessage == Message("", "", FALSE)

\* fmt.Sprintf("%s/%s", a, b)
SprintfNoSlash(a, b) == a \o b
SprintfSlash(a, b) == a \o "/" \o b

Running == exit = "running"

\* logger.Fatalln / log.Fatalf: the log line, then os.Exit(1)
FatalTaskOnly(who) ==
    /\ exit' = exit
    /\ fatalBy' = who
Fatal(who) ==
    /\ exit' = "fatal"
    /\ fatalBy' = who

\* a loop without its topic: the "disabled" log line, then return
DisableAndGoOn(p) ==
    /\ dlog' = [dlog EXCEPT ![p] = @ + 1]
    /\ pc' = [pc EXCEPT ![p] = "ready"]
Disable(p) ==
    /\ dlog' = [dlog EXCEPT ![p] = @ + 1]
    /\ pc' = [pc EXCEPT ![p] = "returned"]

NoOut == [msgs |-> <<>>, idx |-> 0, tick |-> 0, plan |-> <<>>]

NoLoc ==
    [season |-> [month |-> 0],
     dayphase |-> [hour |-> 0, month |-> 0],
     daylight |-> [sunrise |-> 0, sunset |-> 0, now |-> 0],
     weather |-> [feed |-> <<>>, i |-> 0]]

Init ==
    /\ exit = "running"
    /\ fatalBy = "none"
    /\ mainPc = "start"
    /\ env = [MQTT_HOST |-> Unread, MQTT_PREFIX |-> Unread,
              SEASON_TOPIC |-> Unread, DAYPHASE_TOPIC |-> Unread,
              DAYLIGHT_TOPIC |-> Unread, DAYLIGHT_LATITUDE |-> UnreadChars,
              DAYLIGHT_LONGITUDE |-> UnreadChars,
              WEATHER_TOPIC |-> Unread, WEATHER_REGION |-> UnreadChars]
    /\ prefix = ""
    /\ pc = [p \in Producers |-> "unborn"]
    /\ loc = NoLoc
    /\ out = [p \in Producers |-> NoOut]
    /\ ticks = 0
    /\ calls = [daylight |-> 0, weather |-> 0]
    /\ chan = <<>>
    /\ nsent = 0
    /\ pubPc = "idle"
    /\ cur = NoMessage
    /\ received = <<>>
    /\ broker = <<>>
    /\ plog = <<>>
    /\ dlog = [p \in Producers |-> 0]

-----------------------------------------------------------------------------
(* main *)

\* main: the lookups of MQTT_HOST and MQTT_PREFIX
mainLookupEnvHostOptional(prefixes) ==
    /\ Running
    /\ mainPc = "start"
    /\ \E h \in HostLookups, pf \in prefixes :
        /\ env' = [env EXCEPT !.MQTT_HOST = h, !.MQTT_PREFIX = pf]
        /\ prefix' = IF pf.exists THEN pf.value ELSE DefaultPrefix
        /\ mainPc' = "connect"
    /\ UNCHANGED <<exit, fatalBy, pc, loc, out, ticks, calls, chan, nsent, pubPc,
                   cur, received, broker, plog, dlog>>
mainLookupEnv(prefixes) ==
    /\ Running
    /\ mainPc = "start"
    /\ \E h \in HostLookups :
        IF ~h.exists
        THEN /\ env' = [env EXCEPT !.MQTT_HOST = h]
             /\ Fatal("main")
             /\ UNCHANGED <<mainPc, prefix>>
        ELSE \E pf \in prefixes :
             /\ env' = [env EXCEPT !.MQTT_HOST = h, !.MQTT_PREFIX = pf]
             /\ prefix' = IF pf.exists THEN pf.value ELSE DefaultPrefix
             /\ mainPc' = "connect"
             /\ UNCHANGED <<exit, fatalBy>>
    /\ UNCHANGED <<pc, loc, out, ticks, calls, chan, nsent, pubPc, cur,
                   received, broker, plog, dlog>>

\* main: c.Connect(); an error ends the process through logger.Panic
mainConnect ==
    /\ Running
    /\ mainPc = "connect"
    /\ \E ok \in BOOLEAN :
        IF ok
        THEN mainPc' = "go" /\ UNCHANGED <<exit, fatalBy>>
        ELSE exit' = "panic" /\ fatalBy' = "main" /\ UNCHANGED mainPc
    /\ UNCHANGED <<env, prefix, pc, loc, out, ticks, calls, chan, nsent, pubPc,
                   cur, received, broker, plog, dlog>>

Unborn == {i \in 1..Len(GoOrder) : pc[GoOrder[i]] = "unborn"}

\* main: the next go statement
mainGo ==
    /\ Running
    /\ mainPc = "go"
    /\ Unborn # {}
    /\ LET i == CHOOSE k \in Unborn : \A j \in Unborn : k <= j
       IN  pc' = [pc EXCEPT ![GoOrder[i]] = "start"]
    /\ UNCHANGED <<exit, fatalBy, mainPc, env, prefix, loc, out, ticks, calls,
                   chan, nsent, pubPc, cur, received, broker, plog, dlog>>

-----------------------------------------------------------------------------
(* MessageLoop *)

\* close(ch): no statement of the program closes the channel
ClosedWhenProducersReturned == \A p \in Producers : pc[p] = "returned"
Closed == FALSE

\* a receive that ends the loop when no message is there: MessageLoop
\* returns, main disconnects and returns
ReceiveOrReturn ==
    IF chan # <<>>
    THEN /\ cur' = Head(chan).msg
         /\ received' = Append(received, Head(chan))
         /\ chan' = Tail(chan)
         /\ pubPc' = "publish"
         /\ UNCHANGED exit
    ELSE /\ pubPc' = "returned"
         /\ exit' = "done"
         /\ UNCHANGED <<cur, received, chan>>
\* a receive that does not wait for a sender
ReceiveNoWait ==
    IF chan # <<>>
    THEN /\ cur' = Head(chan).msg
         /\ received' = Append(received, Head(chan))
         /\ chan' = Tail(chan)
         /\ pubPc' = "publish"
         /\ UNCHANGED exit
    ELSE /\ pubPc' = "idle"
         /\ UNCHANGED <<exit, cur, received, chan>>
\* `for m := range ch`: take a buffered message, or wait for a sender; on a
\* closed and drained channel the range ends, MessageLoop returns, and main
\* runs c.Disconnect(250) and returns
Receive ==
    IF chan # <<>>
    THEN /\ cur' = Head(chan).msg
         /\ received' = Append(received, Head(chan))
         /\ chan' = Tail(chan)
         /\ pubPc' = "publish"
         /\ UNCHANGED exit
    ELSE IF Closed
    THEN /\ pubPc' = "returned"
         /\ exit' = "done"
         /\ UNCHANGED <<cur, received, chan>>
    ELSE /\ pubPc' = "recv"
         /\ UNCHANGED <<exit, cur, received, chan>>

\* main: all goroutines started, MessageLoop(c, ch, prefixFromEnv) begins
MessageLoopEnter ==
    /\ Running
    /\ mainPc = "go"
    /\ Unborn = {}
    /\ mainPc' = "loop"
    /\ Receive
    /\ UNCHANGED <<fatalBy, env, prefix, pc, loc, out, ticks, calls,
                   nsent, broker, plog, dlog>>

\* topic := fmt.Sprintf("%s/%s", prefix, m.Topic)
PublishTopicNoSlash(pfx, topic) == SprintfNoSlash(pfx, topic)
PublishTopic(pfx, topic) == SprintfSlash(pfx, topic)

\* the arguments of c.Publish(topic, 0, m.Retain, m.Payload) and its outcome
PublishCall(m, failed) ==
    [topic |-> PublishTopic(prefix, m.topic), qos |-> PublishQos,
     retain |-> m.retain, payload |-> m.payload, failed |-> failed]

\* what MessageLoop does after a publish that returned an error
AfterPublishErrorRetry ==
    UNCHANGED <<exit, fatalBy, pubPc, cur, received, chan, plog>>
AfterPublishErrorContinue ==
    /\ Receive
    /\ UNCHANGED <<fatalBy, plog>>
AfterPublishError ==
    /\ Fatal("publisher")
    /\ UNCHANGED <<pubPc, cur, received, chan, plog>>

\* MessageLoop: publish m, wait for the token, log, receive again
MessageLoopPublishDetached ==
    /\ Running
    /\ pubPc = "publish"
    /\ Receive
    /\ UNCHANGED <<fatalBy, broker, plog, mainPc, env, prefix, pc, loc, out,
                   ticks, calls, nsent, dlog>>
MessageLoopPublish ==
    /\ Running
    /\ pubPc = "publish"
    /\ \E failed \in BOOLEAN :
        /\ broker' = Append(broker, PublishCall(cur, failed))
        /\ IF failed
           THEN AfterPublishError
           ELSE /\ plog' = Append(plog, [topic |-> PublishTopic(prefix, cur.topic),
                                         payload |-> cur.payload])
                /\ Receive
                /\ UNCHANGED fatalBy
    /\ UNCHANGED <<mainPc, env, prefix, pc, loc, out, ticks, calls, nsent, dlog>>

-----------------------------------------------------------------------------
(* The channel send of a producer *)

\* the message a producer blocked in `ch <- ...` is sending
SendingReversed(o) == o.msgs[Len(o.msgs) + 1 - o.idx]
Sending(o) == o.msgs[o.idx]

\* WeatherAPINormalizeValue
WeatherAPINormalizeFalsy(value) == IF value \in {"-", "0"} THEN "" ELSE value
WeatherAPINormalizeValue(value) == IF value = "-" THEN "" ELSE value

\* the sub-topic and the WeatherAPIData field of each `if` of WeatherLoop, in order
WeatherFieldsStructOrder ==
    <<[sub |-> "humidity", field |-> "Humidity"],
      [sub |-> "temperature.ground", field |-> "TemperatureGround"],
      [sub |-> "temperature.10cm", field |-> "Temperature10cm"],
      [sub |-> "wind", field |-> "WindSpeed"],
      [sub |-> "gust", field |-> "GustSpeed"],
      [sub |-> "pressure", field |-> "AirPressure"],
      [sub |-> "sight", field |-> "SightRange"],
      [sub |-> "rain", field |-> "Rain"]>>
WeatherFields ==
    <<[sub |-> "humidity", field |-> "Humidity"],
      [sub |-> "temperature.ground", field |-> "TemperatureGround"],
      [sub |-> "temperature.10cm", field |-> "Temperature10cm"],
      [sub |-> "wind", field |-> "WindSpeed"],
      [sub |-> "gust", field |-> "GustSpeed"],
      [sub |-> "pressure", field |-> "AirPressure"],
      [sub |-> "rain", field |-> "Rain"],
      [sub |-> "sight", field |-> "SightRange"]>>

\* regionName := strings.Replace(strings.ToLower(location.Station.Region), " ", "-", -1)
RegionNameHyphenated(location) == ReplaceAll(location.Region, " ", "-")
RegionName(location) == ReplaceAll(ToLower(location.Region), " ", "-")

\* WeatherLoop: the messages built from tpcs and msgs for one location
WeatherMessagesAnyRegion(topic, region, location) ==
    LET present ==
            SelectSeq(WeatherFields,
                LAMBDA e : Len(WeatherAPINormalizeValue(location[e.field])) > 0)
    IN  [k \in 1..Len(present) |->
            Message(SprintfSlash(topic, present[k].sub),
                    location[present[k].field], FALSE)]
WeatherMessages(topic, region, location) ==
    IF RegionName(location) # region
    THEN <<>>
    ELSE LET present ==
                 SelectSeq(WeatherFields,
                     LAMBDA e : Len(WeatherAPINormalizeValue(location[e.field])) > 0)
         IN  [k \in 1..Len(present) |->
                 Message(SprintfSlash(topic, present[k].sub),
                         location[present[k].field], FALSE)]

\* WeatherLoop: the first location after i that sends something, 0 when none does
NextLocation(feed, i, topic, region) ==
    LET later == {j \in (i + 1)..Len(feed) :
                     WeatherMessages(topic, region, feed[j]) # <<>>}
    IN  IF later = {} THEN 0 ELSE CHOOSE j \in later : \A k \in later : j <= k

\* the messages of a whole iteration over the feed, in the order of the sends
RECURSIVE WeatherPlan(_, _, _)
WeatherPlan(feed, topic, region) ==
    IF feed = <<>>
    THEN <<>>
    ELSE WeatherMessages(topic, region, Head(feed))
             \o WeatherPlan(Tail(feed), topic, region)

\* the locals once an iteration is over: they are out of scope, except that
\* the model keeps the feed of the weather loop's last fetch for the properties
AfterIteration(p) ==
    IF p = "weather"
    THEN [feed |-> loc.weather.feed, i |-> 0]
    ELSE NoLoc[p]

\* the producer after its send completed: the next message of the iteration,
\* the next location of the feed, or time.Sleep
AfterSendOneOnly(p) ==
    /\ out' = [out EXCEPT ![p].idx = 0, ![p].msgs = <<>>]
    /\ loc' = [loc EXCEPT ![p] = AfterIteration(p)]
    /\ pc' = [pc EXCEPT ![p] = "sleep"]
AfterSend(p) ==
    LET o == out[p]
        j == IF p = "weather"
             THEN NextLocation(loc.weather.feed, loc.weather.i,
                               env.WEATHER_TOPIC.value, env.WEATHER_REGION.value)
             ELSE 0
    IN  IF o.idx < Len(o.msgs)
        THEN /\ out' = [out EXCEPT ![p].idx = o.idx + 1]
             /\ UNCHANGED <<pc, loc>>
        ELSE IF j # 0
        THEN /\ out' = [out EXCEPT ![p].idx = 1,
                            ![p].msgs = WeatherMessages(env.WEATHER_TOPIC.value,
                                            env.WEATHER_REGION.value,
                                            loc.weather.feed[j])]
             /\ loc' = [loc EXCEPT !.weather.i = j]
             /\ UNCHANGED pc
        ELSE /\ out' = [out EXCEPT ![p].idx = 0, ![p].msgs = <<>>]
             /\ loc' = [loc EXCEPT ![p] = AfterIteration(p)]
             /\ pc' = [pc EXCEPT ![p] = "sleep"]

\* `ch <- MqttCronMessage{...}`: handed to MessageLoop when it waits in its
\* receive, buffered when the channel has room, blocked otherwise
Send(p) ==
    /\ Running
    /\ pc[p] = "send"
    /\ LET e == [src |-> p, tick |-> out[p].tick, msg |-> Sending(out[p])]
       IN  IF pubPc = "recv"
           THEN /\ cur' = e.msg
                /\ received' = Append(received, e)
                /\ pubPc' = "publish"
                /\ UNCHANGED chan
           ELSE /\ Len(chan) < ChanCap
                /\ chan' = Append(chan, e)
                /\ UNCHANGED <<cur, received, pubPc>>
    /\ nsent' = nsent + 1
    /\ AfterSend(p)
    /\ UNCHANGED <<exit, fatalBy, mainPc, env, prefix, ticks, calls, broker,
                   plog, dlog>>

\* one-message iteration of a producer, blocked in its send
OneMessageTwice(m) ==
    [msgs |-> <<m, m>>, idx |-> 1, tick |-> ticks + 1, plan |-> <<m, m>>]
OneMessage(m) == [msgs |-> <<m>>, idx |-> 1, tick |-> ticks + 1, plan |-> <<m>>]

AtLoopTop(p) == pc[p] \in {"ready", "sleep"} /\ ticks < MaxTicks

\* the outcomes of an HTTP call: http.Get, io.ReadAll and Unmarshal errors
ApiOutcomes == {"ok", "get failed", "read failed", "parse failed"}

-----------------------------------------------------------------------------
(* SeasonLoop *)

Months == 1..12

SeasonLoopStart ==
    /\ Running
    /\ pc["season"] = "start"
    /\ \E t \in SeasonTopicLookups :
        /\ env' = [env EXCEPT !.SEASON_TOPIC = t]
        /\ IF ~t.exists
           THEN Disable("season")
           ELSE /\ pc' = [pc EXCEPT !["season"] = "ready"]
                /\ UNCHANGED dlog
    /\ UNCHANGED <<exit, fatalBy, mainPc, prefix, loc, out, ticks, calls, chan,
                   nsent, pubPc, cur, received, broker, plog>>

\* the if-chain on now.Month()
SeasonOffByOne(month) ==
    IF month <= 3 THEN "winter"
    ELSE IF month <= 6 THEN "spring"
    ELSE IF month <= 9 THEN "summer"
    ELSE IF month <= 12 THEN "fall"
    ELSE "winter"
Season(month) ==
    IF month < 3 THEN "winter"
    ELSE IF month < 6 THEN "spring"
    ELSE IF month < 9 THEN "summer"
    ELSE IF month < 12 THEN "fall"
    ELSE "winter"

SeasonLoopTick(months) ==
    /\ Running
    /\ AtLoopTop("season")
    /\ \E month \in months :
        /\ loc' = [loc EXCEPT !.season = [month |-> month]]
        /\ out' = [out EXCEPT !["season"] =
                      OneMessage(Message(env.SEASON_TOPIC.value, Season(month), TRUE))]
    /\ pc' = [pc EXCEPT !["season"] = "send"]
    /\ ticks' = ticks + 1
    /\ UNCHANGED <<exit, fatalBy, mainPc, env, prefix, calls, chan, nsent,
                   pubPc, cur, received, broker, plog, dlog>>

-----------------------------------------------------------------------------
(* DayPhaseLoop *)

Hours == 0..23

DayPhaseLoopStart ==
    /\ Running
    /\ pc["dayphase"] = "start"
    /\ \E t \in DayPhaseTopicLookups :
        /\ env' = [env EXCEPT !.DAYPHASE_TOPIC = t]
        /\ IF ~t.exists
           THEN Disable("dayphase")
           ELSE /\ pc' = [pc EXCEPT !["dayphase"] = "ready"]
                /\ UNCHANGED dlog
    /\ UNCHANGED <<exit, fatalBy, mainPc, prefix, loc, out, ticks, calls, chan,
                   nsent, pubPc, cur, received, broker, plog>>

\* the if-chain on now.Hour() and now.Month()
DayPhaseByHour(hour, month) ==
    IF hour < 6 THEN "night"
    ELSE IF hour < 12 THEN "morning"
    ELSE IF hour < 18 THEN "afternoon"
    ELSE "evening"
DayPhase(hour, month) ==
    IF hour < 6 THEN "night"
    ELSE IF hour < 12 THEN "morning"
    ELSE IF month < 18 THEN "afternoon"
    ELSE "evening"

DayPhaseLoopTick(hours, months) ==
    /\ Running
    /\ AtLoopTop("dayphase")
    /\ \E hour \in hours, month \in months :
        /\ loc' = [loc EXCEPT !.dayphase = [hour |-> hour, month |-> month]]
        /\ out' = [out EXCEPT !["dayphase"] =
                      OneMessage(Message(env.DAYPHASE_TOPIC.value,
                                         "dayphase value=" \o DayPhase(hour, month),
                                         TRUE))]
    /\ pc' = [pc EXCEPT !["dayphase"] = "send"]
    /\ ticks' = ticks + 1
    /\ UNCHANGED <<exit, fatalBy, mainPc, env, prefix, calls, chan, nsent,
                   pubPc, cur, received, broker, plog, dlog>>

-----------------------------------------------------------------------------
(* DayLightLoop *)

\* DayLightAPIData: the instants the model keeps are whole numbers
DayLight(sunrise, sunset) == [sunrise |-> sunrise, sunset |-> sunset]

DayLightLoopStart ==
    /\ Running
    /\ pc["daylight"] = "start"
    /\ \E t \in DayLightTopicLookups :
        IF ~t.exists
        THEN /\ env' = [env EXCEPT !.DAYLIGHT_TOPIC = t]
             /\ Disable("daylight")
             /\ UNCHANGED <<exit, fatalBy>>
        ELSE \E lat \in LatitudeLookups, lon \in LongitudeLookups :
             /\ env' = [env EXCEPT !.DAYLIGHT_TOPIC = t,
                                   !.DAYLIGHT_LATITUDE = lat,
                                   !.DAYLIGHT_LONGITUDE = lon]
             /\ IF ~lat.exists \/ ~lon.exists
                THEN Fatal("daylight") /\ UNCHANGED pc
                ELSE IF ~ParseFloatOk(lat.value)
                THEN Fatal("daylight") /\ UNCHANGED pc
                ELSE IF ~ParseFloatOk(lon.value)
                THEN Fatal("daylight") /\ UNCHANGED pc
                ELSE /\ pc' = [pc EXCEPT !["daylight"] = "ready"]
                     /\ UNCHANGED <<exit, fatalBy>>
             /\ UNCHANGED dlog
    /\ UNCHANGED <<mainPc, prefix, loc, out, ticks, calls, chan, nsent, pubPc,
                   cur, received, broker, plog>>

\* now.Before(sunrise) || now.After(sunset)
IsDayTimeStrict(now, apiResult) ==
    IF now <= apiResult.sunrise \/ now >= apiResult.sunset THEN "no" ELSE "yes"
IsDayTime(now, apiResult) ==
    IF now < apiResult.sunrise \/ now > apiResult.sunset THEN "no" ELSE "yes"

DayLightLoopTick(results, nows) ==
    /\ Running
    /\ AtLoopTop("daylight")
    /\ ticks' = ticks + 1
    /\ calls' = [calls EXCEPT !.daylight = @ + 1]
    /\ \E outcome \in ApiOutcomes :
        IF outcome # "ok"
        THEN /\ Fatal("daylight")
             /\ UNCHANGED <<pc, loc, out>>
        ELSE \E apiResult \in results, now \in nows :
             /\ loc' = [loc EXCEPT !.daylight =
                           [sunrise |-> apiResult.sunrise,
                            sunset |-> apiResult.sunset, now |-> now]]
             /\ out' = [out EXCEPT !["daylight"] =
                           OneMessage(Message(env.DAYLIGHT_TOPIC.value,
                                              IsDayTime(now, apiResult), TRUE))]
             /\ pc' = [pc EXCEPT !["daylight"] = "send"]
             /\ UNCHANGED <<exit, fatalBy>>
    /\ UNCHANGED <<mainPc, env, prefix, chan, nsent, pubPc, cur, received,
                   broker, plog, dlog>>

-----------------------------------------------------------------------------
(* WeatherLoop *)

\* WeatherAPIData with its Station.Region
Location(region, humidity, ground, at10cm, wind, gust, pressure, rain, sight) ==
    [Region |-> region, Humidity |-> humidity, TemperatureGround |-> ground,
     Temperature10cm |-> at10cm, WindSpeed |-> wind, GustSpeed |-> gust,
     AirPressure |-> pressure, Rain |-> rain, SightRange |-> sight]

WeatherLoopStart(regions) ==
    /\ Running
    /\ pc["weather"] = "start"
    /\ \E t \in WeatherTopicLookups, r \in regions :
        /\ env' = [env EXCEPT !.WEATHER_TOPIC = t, !.WEATHER_REGION = r]
        /\ IF ~t.exists
           THEN Disable("weather")
           ELSE IF ~r.exists
           THEN Disable("weather")
           ELSE /\ pc' = [pc EXCEPT !["weather"] = "ready"]
                /\ UNCHANGED dlog
    /\ UNCHANGED <<exit, fatalBy, mainPc, prefix, loc, out, ticks, calls, chan,
                   nsent, pubPc, cur, received, broker, plog>>

WeatherLoopTick(feeds) ==
    /\ Running
    /\ AtLoopTop("weather")
    /\ ticks' = ticks + 1
    /\ calls' = [calls EXCEPT !.weather = @ + 1]
    /\ \E outcome \in ApiOutcomes :
        IF outcome # "ok"
        THEN /\ Fatal("weather")
             /\ UNCHANGED <<pc, loc, out>>
        ELSE \E feed \in feeds :
             LET topic == env.WEATHER_TOPIC.value
                 region == env.WEATHER_REGION.value
                 j == NextLocation(feed, 0, topic, region)
                 plan == WeatherPlan(feed, topic, region)
             IN  /\ IF j = 0
                    THEN /\ out' = [out EXCEPT !["weather"] =
                                       [msgs |-> <<>>, idx |-> 0,
                                        tick |-> ticks + 1, plan |-> plan]]
                         /\ pc' = [pc EXCEPT !["weather"] = "sleep"]
                         /\ loc' = [loc EXCEPT !.weather = [feed |-> feed, i |-> 0]]
                    ELSE /\ out' = [out EXCEPT !["weather"] =
                                       [msgs |-> WeatherMessages(topic, region, feed[j]),
                                        idx |-> 1, tick |-> ticks + 1, plan |-> plan]]
                         /\ pc' = [pc EXCEPT !["weather"] = "send"]
                         /\ loc' = [loc EXCEPT !.weather = [feed |-> feed, i |-> j]]
                 /\ UNCHANGED <<exit, fatalBy>>
    /\ UNCHANGED <<mainPc, env, prefix, chan, nsent, pubPc, cur, received,
                   broker, plog, dlog>>

-----------------------------------------------------------------------------
(* The whole program, with the clock readings and API results of the model *)

NoValue == "-"

StationHolland ==
    Location(<<"N","o","o","r","d"," ","H","o","l","l","a","n","d">>,
             "82", NoValue, NoValue, NoValue, NoValue, NoValue, "0", NoValue)
StationUtrecht ==
    Location(<<"U","t","r","e","c","h","t">>,
             "70", NoValue, NoValue, NoValue, NoValue, NoValue, NoValue, NoValue)

ProgramFeeds == {<<StationUtrecht>>, <<StationUtrecht, StationHolland>>}
ProgramHours == {3, 13}
ProgramMonths == {2, 7}
ProgramPhaseMonths == {7}
ProgramDayLight == {DayLight(1, 3)}
ProgramNows == {0, 2}

Next ==
    \/ mainLookupEnv(PrefixLookups)
    \/ mainConnect
    \/ mainGo
    \/ MessageLoopEnter
    \/ MessageLoopPublish
    \/ \E p \in Producers : Send(p)
    \/ SeasonLoopStart
    \/ SeasonLoopTick(ProgramMonths)
    \/ DayPhaseLoopStart
    \/ DayPhaseLoopTick(ProgramHours, ProgramPhaseMonths)
    \/ DayLightLoopStart
    \/ DayLightLoopTick(ProgramDayLight, ProgramNows)
    \/ WeatherLoopStart(RegionLookups)
    \/ WeatherLoopTick(ProgramFeeds)

Spec == Init /\ [][Next]_vars

\* main, MessageLoop and SeasonLoop alone, with every month of the year
NextSeason ==
    \/ mainLookupEnv(PrefixLookups)
    \/ mainConnect
    \/ mainGo
    \/ MessageLoopEnter
    \/ MessageLoopPublish
    \/ Send("season")
    \/ SeasonLoopStart
    \/ SeasonLoopTick(Months)

SpecSeason == Init /\ [][NextSeason]_vars

-----------------------------------------------------------------------------
(* Properties *)

\* the messages MessageLoop has received from iteration t of producer p, in order
ReceivedOf(p, t) ==
    LET es == SelectSeq(received, LAMBDA e : e.src = p /\ e.tick = t)
    IN  [k \in 1..Len(es) |-> es[k].msg]

IsPrefix(a, b) == Len(a) <= Len(b) /\ a = SubSeq(b, 1, Len(a))

\* C1: the messages of one iteration of a producer are received in the order
\* in which the producer sends them, whatever other producers' messages come
\* between them: what has been received of the iteration is always a prefix
\* of the iteration's messages in sending order.
C1_TickOrderPreserved ==
    \A p \in Producers :
        out[p].tick # 0 => IsPrefix(ReceivedOf(p, out[p].tick), out[p].plan)

\* two weather messages of one iteration received in order, with a message of
\* another producer between them
C1_Witness ==
    \E i, j, k \in 1..Len(received) :
        /\ i < j /\ j < k
        /\ received[i].src = "weather" /\ received[k].src = "weather"
        /\ received[i].tick = received[k].tick
        /\ received[j].src # "weather"
        /\ received[i].msg = out["weather"].plan[1]
        /\ received[k].msg = out["weather"].plan[2]

\* C2: the channel buffers nothing: in every state no message is in the
\* channel and every completed send has been received; a producer still in
\* its send has messages of its iteration not yet received, and a producer
\* sleeps only when all messages of its iteration have been received.
C2_NoBuffering ==
    /\ Len(chan) = 0
    /\ nsent - Len(received) = 0
    /\ \A p \in Producers :
        /\ pc[p] = "send" =>
              Len(ReceivedOf(p, out[p].tick)) < Len(out[p].plan)
        /\ pc[p] = "sleep" =>
              Len(ReceivedOf(p, out[p].tick)) = Len(out[p].plan)

\* two producers blocked in their sends while MessageLoop is publishing
C2_Witness ==
    /\ pubPc = "publish"
    /\ Len(received) >= 1
    /\ Cardinality({p \in Producers : pc[p] = "send"}) >= 2

\* C3: every received message gets exactly one publish: the i-th publish is
\* for the i-th received message, at most the message being handled has no
\* publish yet, and there are never more publishes than completed sends.
C3_OnePublishPerMessage ==
    /\ Len(broker) <= nsent
    /\ Len(broker) <= Len(received)
    /\ Len(received) <= Len(broker) + 1
    /\ \A i \in 1..Len(broker) :
        /\ broker[i].payload = received[i].msg.payload
        /\ broker[i].retain = received[i].msg.retain
    /\ Len(chan) = 0

\* a failed publish that followed a successful one
C3_Witness ==
    /\ Len(broker) = 2
    /\ ~broker[1].failed
    /\ broker[2].failed
    /\ Len(received) = 2

\* C4: a publish that returned an error is the last thing MessageLoop did:
\* the process has ended fatally, nothing was received or published after
\* it, and the log has a "published" line for each earlier publish only.
C4_PublishErrorIsFatal ==
    /\ \A i \in 1..Len(broker) :
        broker[i].failed =>
            /\ i = Len(broker)
            /\ exit = "fatal"
            /\ fatalBy = "publisher"
            /\ Len(received) = i
            /\ Len(plog) = i - 1
    /\ Len(plog) = Cardinality({i \in 1..Len(broker) : ~broker[i].failed})

\* a publish fails while a producer is blocked in its send
C4_Witness ==
    /\ Len(broker) >= 1
    /\ broker[Len(broker)].failed
    /\ \E p \in Producers : pc[p] = "send"

\* C5: once any task has ended the process, no message is sent, received,
\* published or logged any more, also not those of blocked producers.
C5_FatalStopsEverything ==
    [][fatalBy # "none" =>
          /\ received' = received
          /\ broker' = broker
          /\ nsent' = nsent
          /\ plog' = plog
          /\ chan' = chan]_vars

\* a producer ended the process while another producer was blocked in its send
C5_Witness ==
    /\ exit = "fatal"
    /\ fatalBy \in {"daylight", "weather"}
    /\ \E p \in Producers : p # fatalBy /\ pc[p] = "send"

\* the lookup of the topic variable that enables each producer
TopicOf(p) ==
    CASE p = "season" -> env.SEASON_TOPIC
      [] p = "dayphase" -> env.DAYPHASE_TOPIC
      [] p = "daylight" -> env.DAYLIGHT_TOPIC
      [] p = "weather" -> env.WEATHER_TOPIC

NothingFrom(p) ==
    /\ \A i \in 1..Len(received) : received[i].src # p
    /\ \A i \in 1..Len(chan) : chan[i].src # p
    /\ out[p] = NoOut

\* C6: a producer whose topic variable is unset has logged exactly one
\* "disabled" line, has returned, and has sent nothing and called no API.
C6_DisabledSourceSendsNothing ==
    \A p \in Producers :
        (TopicOf(p).read /\ ~TopicOf(p).exists) =>
            /\ pc[p] = "returned"
            /\ dlog[p] = 1
            /\ NothingFrom(p)
            /\ p \in DOMAIN calls => calls[p] = 0

\* the season source is disabled and a day phase message is published
C6_Witness ==
    /\ env.SEASON_TOPIC.read /\ ~env.SEASON_TOPIC.exists
    /\ pc["season"] = "returned"
    /\ \E i \in 1..Len(broker) : received[i].src = "dayphase" /\ ~broker[i].failed

\* the coordinates of the model that are decimal numbers
DecimalCoordinates == {<<"5","2",".","0","7">>, <<"-","4",".","2">>}

BadCoordinate(lookup) == ~lookup.exists \/ lookup.value \notin DecimalCoordinates

\* C7: with DAYLIGHT_TOPIC set and a coordinate missing or not a number, the
\* daylight loop has ended the process without an API call and without a send.
C7_BadCoordinatesAreFatal ==
    (/\ env.DAYLIGHT_TOPIC.exists
     /\ \/ BadCoordinate(env.DAYLIGHT_LATITUDE)
        \/ BadCoordinate(env.DAYLIGHT_LONGITUDE)) =>
        /\ exit = "fatal"
        /\ fatalBy = "daylight"
        /\ calls.daylight = 0
        /\ NothingFrom("daylight")

\* the latitude is set but no number, and the process ended after a publish
C7_Witness ==
    /\ env.DAYLIGHT_TOPIC.exists
    /\ env.DAYLIGHT_LATITUDE.exists
    /\ env.DAYLIGHT_LATITUDE.value = <<"n","o","r","t","h">>
    /\ env.DAYLIGHT_LONGITUDE.value \in DecimalCoordinates
    /\ fatalBy = "daylight"
    /\ Len(broker) >= 1

\* C8: with WEATHER_TOPIC set and WEATHER_REGION missing the process ends
\* fatally.
C8_MissingRegionIsFatal ==
    (/\ env.WEATHER_TOPIC.exists
     /\ env.WEATHER_REGION.read
     /\ ~env.WEATHER_REGION.exists) =>
        exit = "fatal"

C10_SeasonOfMonth ==
    pc["season"] = "send" =>
        LET month == loc.season.month
            payload == Sending(out["season"]).payload
        IN  /\ month \in 1..12
            /\ month \in {1, 2, 12} => payload = "winter"
            /\ month \in {3, 4, 5} => payload = "spring"
            /\ month \in {6, 7, 8} => payload = "summer"
            /\ month \in {9, 10, 11} => payload = "fall"

\* the season loop sends winter in December
C10_Witness ==
    /\ pc["season"] = "send"
    /\ loc.season.month = 12
    /\ Sending(out["season"]).payload = "winter"

-----------------------------------------------------------------------------
(* main, MessageLoop and DayPhaseLoop alone, with every hour and month *)

NextDayPhase ==
    \/ mainLookupEnv(PrefixLookups)
    \/ mainConnect
    \/ mainGo
    \/ MessageLoopEnter
    \/ MessageLoopPublish
    \/ Send("dayphase")
    \/ DayPhaseLoopStart
    \/ DayPhaseLoopTick(Hours, Months)

SpecDayPhase == Init /\ [][NextDayPhase]_vars

\* the payload of the message the day phase loop is sending
DayPhasePayload == Sending(out["dayphase"]).payload

\* C11: for every hour and month the day phase loop sends
\* `dayphase value=<phase>` with night for hours 0 to 5, morning for 6 to 11,
\* afternoon for 12 to 17 and evening for 18 to 23.
C11_DayPhaseOfHour ==
    pc["dayphase"] = "send" =>
        LET hour == loc.dayphase.hour
        IN  /\ hour \in 0..5 => DayPhasePayload = "dayphase value=night"
            /\ hour \in 6..11 => DayPhasePayload = "dayphase value=morning"
            /\ hour \in 12..17 => DayPhasePayload = "dayphase value=afternoon"
            /\ hour \in 18..23 => DayPhasePayload = "dayphase value=evening"

\* C17 as stated: the day phase loop reports evening for every hour from 12
\* to 23 and never reports afternoon.
C17_EveningFromNoon ==
    pc["dayphase"] = "send" =>
        /\ loc.dayphase.hour \in 12..23 => DayPhasePayload = "dayphase value=evening"
        /\ DayPhasePayload # "dayphase value=afternoon"

\* C17 amended: the day phase loop reports afternoon for every hour from 12
\* to 23 in every month, and never reports evening (night before 6, morning
\* from 6 to 11).
C17_AfternoonFromNoon ==
    pc["dayphase"] = "send" =>
        /\ loc.dayphase.hour \in 0..23 /\ loc.dayphase.month \in 1..12
        /\ loc.dayphase.hour \in 12..23 => DayPhasePayload = "dayphase value=afternoon"
        /\ DayPhasePayload # "dayphase value=evening"
        /\ DayPhasePayload \in {"dayphase value=night", "dayphase value=morning",
                                "dayphase value=afternoon"}

\* the day phase loop sends afternoon at 23 h in December
C17_Witness ==
    /\ pc["dayphase"] = "send"
    /\ loc.dayphase.hour = 23
    /\ loc.dayphase.month = 12
    /\ DayPhasePayload = "dayphase value=afternoon"

-----------------------------------------------------------------------------
(* main, MessageLoop and DayLightLoop alone; instants are minutes of the day *)

\* results of the sunrise-sunset API: 08:00Z to 18:00Z, and 05:00Z to 21:00Z
ApiDayLight == {DayLight(480, 1080), DayLight(300, 1260)}

\* readings of time.Now(): 07:59Z, 08:00Z, 12:00Z, 18:00Z, 18:01Z
ClockReadings == {479, 480, 720, 1080, 1081}

NextDayLight ==
    \/ mainLookupEnv(PrefixLookups)
    \/ mainConnect
    \/ mainGo
    \/ MessageLoopEnter
    \/ MessageLoopPublish
    \/ Send("daylight")
    \/ DayLightLoopStart
    \/ DayLightLoopTick(ApiDayLight, ClockReadings)

SpecDayLight == Init /\ [][NextDayLight]_vars

\* C12: the daylight loop sends `no` exactly when now is before sunrise or
\* after sunset and `yes` otherwise; with sunrise 08:00Z and sunset 18:00Z it
\* sends no at 07:59Z, yes at 08:00Z, yes at 18:00Z and no at 18:01Z.
C12_DayLightPredicate ==
    pc["daylight"] = "send" =>
        LET d == loc.daylight
            payload == Sending(out["daylight"]).payload
        IN  /\ payload \in {"yes", "no"}
            /\ payload = "no" <=> (d.now < d.sunrise \/ d.now > d.sunset)
            /\ (d.sunrise = 480 /\ d.sunset = 1080) =>
                   /\ d.now = 479 => payload = "no"
                   /\ d.now = 480 => payload = "yes"
                   /\ d.now = 1080 => payload = "yes"
                   /\ d.now = 1081 => payload = "no"

\* the daylight loop sends yes at the instant of sunset
C12_Witness ==
    /\ pc["daylight"] = "send"
    /\ loc.daylight.sunrise = 480
    /\ loc.daylight.sunset = 1080
    /\ loc.daylight.now = 1080
    /\ Sending(out["daylight"]).payload = "yes"

-----------------------------------------------------------------------------
(* main, MessageLoop and WeatherLoop alone, with more stations and regions *)

Holland == <<"N","o","o","r","d"," ","H","o","l","l","a","n","d">>

\* a station of Noord Holland that reports one field only
OnlyField(k, value) ==
    LET v(n) == IF n = k THEN value ELSE NoValue
    IN  Location(Holland, v(1), v(2), v(3), v(4), v(5), v(6), v(7), v(8))

StationSilent ==
    Location(Holland, NoValue, NoValue, NoValue, NoValue, NoValue, NoValue,
             NoValue, NoValue)
StationFull == Location(Holland, "81", "2.5", "3.5", "4", "5", "1013", "0", "9000")
StationCoast == Location(Holland, "90", NoValue, NoValue, "11", "17", NoValue, "0.4", NoValue)

ApiFeeds ==
    {<<OnlyField(k, "0")>> : k \in 1..8}
        \cup {<<StationSilent>>, <<StationFull>>, <<StationUtrecht>>, <<>>,
              <<StationUtrecht, StationCoast>>,
              <<StationFull, StationUtrecht, StationCoast>>}

\* WEATHER_REGION unset, as the feed's regions are normalised, and as the feed has it
ApiRegionLookups == RegionLookups \cup {Present(Holland)}

NextWeather ==
    \/ mainLookupEnv(PrefixLookups)
    \/ mainConnect
    \/ mainGo
    \/ MessageLoopEnter
    \/ MessageLoopPublish
    \/ Send("weather")
    \/ WeatherLoopStart(ApiRegionLookups)
    \/ WeatherLoopTick(ApiFeeds)

SpecWeather == Init /\ [][NextWeather]_vars

-----------------------------------------------------------------------------
(* Properties of the weather loop *)

\* the sub-topics of the weather readings in the order of the specification's
\* table, and the field of the feed each one reports
SubTopicOrder ==
    <<"humidity", "temperature.ground", "temperature.10cm", "wind", "gust",
      "pressure", "rain", "sight">>

SubTopicField ==
    [s \in {SubTopicOrder[k] : k \in 1..Len(SubTopicOrder)} |->
        CASE s = "humidity" -> "Humidity"
          [] s = "temperature.ground" -> "TemperatureGround"
          [] s = "temperature.10cm" -> "Temperature10cm"
          [] s = "wind" -> "WindSpeed"
          [] s = "gust" -> "GustSpeed"
          [] s = "pressure" -> "AirPressure"
          [] s = "rain" -> "Rain"
          [] s = "sight" -> "SightRange"]

\* lowercased, spaces replaced with hyphens
Slug(s) == ReplaceAll(ToLower(s), " ", "-")

\* a cycle of the weather loop is over: the feed of its fetch and everything
\* MessageLoop received from it
WeatherCycleDone == out["weather"].tick # 0 /\ pc["weather"] = "sleep"
WeatherFeed == loc.weather.feed
WeatherSent == ReceivedOf("weather", out["weather"].tick)
WeatherTopic(sub) == env.WEATHER_TOPIC.value \o "/" \o sub

\* the stations of the feed whose normalised region is the configured region as given
MatchingStations ==
    {i \in 1..Len(WeatherFeed) :
        Slug(WeatherFeed[i].Region) = env.WEATHER_REGION.value}

\* C13: a field of a matched station whose raw value is `-` gives no message,
\* and every other value, `0` included, gives exactly one message whose
\* payload is the raw value: per sub-topic, the payloads received from a cycle
\* are the raw values other than `-` of the matched stations, in feed order.
C13_AbsentFieldsOnlyAreOmitted ==
    WeatherCycleDone =>
        \A k \in 1..Len(SubTopicOrder) :
            LET sub == SubTopicOrder[k]
                matched == SelectSeq(WeatherFeed,
                               LAMBDA st : Slug(st.Region) = env.WEATHER_REGION.value)
                raw == [n \in 1..Len(matched) |-> matched[n][SubTopicField[sub]]]
                given == SelectSeq(raw, LAMBDA v : v # "-")
                got == SelectSeq(WeatherSent, LAMBDA m : m.topic = WeatherTopic(sub))
            IN  given = [n \in 1..Len(got) |-> got[n].payload]

\* a cycle over one matched station with no humidity and zero rain, from which
\* the one message of the rain was received
C13_Witness ==
    /\ WeatherCycleDone
    /\ Len(WeatherFeed) = 1
    /\ MatchingStations = {1}
    /\ WeatherFeed[1].Humidity = "-"
    /\ WeatherFeed[1].Rain = "0"
    /\ Len(WeatherSent) = 1
    /\ WeatherSent[1].payload = "0"

\* the readings a station has: its fields whose raw value is not `-`
Readings(st) ==
    {k \in 1..Len(SubTopicOrder) : st[SubTopicField[SubTopicOrder[k]]] # "-"}

\* C14, as stated: a station whose region equals the configured region after
\* both are lowercased and their spaces replaced with hyphens matches, so a
\* cycle over a feed with such a station that has readings sends something.
C14_BothSidesNormalized ==
    WeatherCycleDone =>
        \A i \in 1..Len(WeatherFeed) :
            (/\ Slug(WeatherFeed[i].Region) = Slug(env.WEATHER_REGION.value)
             /\ Readings(WeatherFeed[i]) # {})
                => WeatherSent # <<>>

\* C14, amended: only the station's region is normalised. A station matches
\* exactly when its region, lowercased and with spaces replaced by hyphens,
\* equals WEATHER_REGION as configured: a cycle sends one message for every
\* reading of every such station and nothing else.
C14_StationRegionNormalized ==
    WeatherCycleDone =>
        Len(WeatherSent) =
            Cardinality({<<i, k>> \in (1..Len(WeatherFeed)) \X (1..Len(SubTopicOrder)) :
                            /\ i \in MatchingStations
                            /\ k \in Readings(WeatherFeed[i])})

\* a station of "Noord Holland" matched the configured "noord-holland"
C14_Witness ==
    /\ WeatherCycleDone
    /\ env.WEATHER_REGION.value = Slug(Holland)
    /\ \E i \in MatchingStations : WeatherFeed[i].Region = Holland
    /\ WeatherSent # <<>>

\* C18, as stated: at most one station contributes to a cycle, so a cycle
\* sends at most eight messages, no sub-topic twice.
C18_SingleStation ==
    WeatherCycleDone =>
        /\ Len(WeatherSent) <= Len(SubTopicOrder)
        /\ \A a, b \in 1..Len(WeatherSent) :
               WeatherSent[a].topic = WeatherSent[b].topic => a = b

\* C18, amended: every station whose normalised region equals the configured
\* region contributes up to eight messages and the others none: a cycle sends
\* at most eight messages per matching station, and each is a reading of a
\* matching station.
C18_MatchingStationsOnly ==
    WeatherCycleDone =>
        /\ Len(WeatherSent) <= Len(SubTopicOrder) * Cardinality(MatchingStations)
        /\ \A n \in 1..Len(WeatherSent) :
               \E i \in MatchingStations :
                   \E k \in Readings(WeatherFeed[i]) :
                       /\ WeatherSent[n].topic = WeatherTopic(SubTopicOrder[k])
                       /\ WeatherSent[n].payload =
                              WeatherFeed[i][SubTopicField[SubTopicOrder[k]]]

\* a cycle over a feed with two stations of the region and one of another,
\* which sent more than eight messages
C18_Witness ==
    /\ WeatherCycleDone
    /\ Cardinality(MatchingStations) > 1
    /\ \E i \in 1..Len(WeatherFeed) : i \notin MatchingStations
    /\ Len(WeatherSent) > Len(SubTopicOrder)

\* the messages of the station the weather loop is sending, as the
\* specification's table orders them
StationMessagesInOrder ==
    LET st == WeatherFeed[loc.weather.i]
        subs == SelectSeq(SubTopicOrder, LAMBDA s : st[SubTopicField[s]] # "-")
        msgs == out["weather"].msgs
    IN  /\ Len(msgs) = Len(subs)
        /\ \A k \in 1..Len(subs) :
               /\ msgs[k].topic = WeatherTopic(subs[k])
               /\ msgs[k].payload = st[SubTopicField[subs[k]]]

\* C19: the messages of a matched station are sent in the order humidity,
\* temperature.ground, temperature.10cm, wind, gust, pressure, rain, sight,
\* absent fields skipped, each under WEATHER_TOPIC/sub-topic, and all of them
\* come from one fetch: while the loop sends, the feed is not fetched again
\* and the messages of the station do not change.
C19_FixedOrderFromOneFetch ==
    /\ [](pc["weather"] = "send" => StationMessagesInOrder)
    /\ [][(pc["weather"] = "send" /\ pc'["weather"] = "send")
            => /\ calls'.weather = calls.weather
               /\ loc'.weather.feed = loc.weather.feed
               /\ (loc'.weather.i = loc.weather.i
                      => out'["weather"].msgs = out["weather"].msgs)]_vars

\* the loop sends the last of the eight messages of a station that has both
\* rain and sight
C19_Witness ==
    /\ pc["weather"] = "send"
    /\ WeatherFeed[loc.weather.i].Rain # "-"
    /\ WeatherFeed[loc.weather.i].SightRange # "-"
    /\ out["weather"].idx = Len(SubTopicOrder)
    /\ Sending(out["weather"]).topic = WeatherTopic("sight")

-----------------------------------------------------------------------------
(* Properties of the season loop's messages, of retain, and of the channel *)

\* the messages iteration t of the season loop has put into the channel or
\* holds at its send
SeasonEnqueued(t) ==
    ReceivedOf("season", t)
        \o (IF pc["season"] = "send" /\ out["season"].tick = t
            THEN SubSeq(out["season"].msgs, out["season"].idx, Len(out["season"].msgs))
            ELSE <<>>)

\* C15: with SEASON_TOPIC set to t, every tick of the season loop enqueues
\* exactly one message, with topic t, the season of the month as payload
\* (summer in July) and retain true; every publish of a season message has
\* the topic prefix/t, the payload of the message and retain true.
C15_OneSeasonMessagePerTick ==
    /\ \A t \in 1..ticks :
           /\ Len(SeasonEnqueued(t)) = 1
           /\ SeasonEnqueued(t)[1].topic = env.SEASON_TOPIC.value
           /\ SeasonEnqueued(t)[1].payload \in {"winter", "spring", "summer", "fall"}
           /\ SeasonEnqueued(t)[1].retain = TRUE
    /\ (pc["season"] = "send" /\ loc.season.month = 7)
           => Sending(out["season"]).payload = "summer"
    /\ \A i \in 1..Len(broker) :
           received[i].src = "season" =>
               /\ broker[i].topic = prefix \o "/" \o env.SEASON_TOPIC.value
               /\ broker[i].payload = received[i].msg.payload
               /\ broker[i].retain = TRUE

\* two ticks of the season loop, the second one in July: the first message is
\* published under the default prefix, the second is at its send
C15_Witness ==
    /\ ticks = 2
    /\ Len(broker) = 1
    /\ broker[1].topic = "/home.arpa/cron/season"
    /\ ~broker[1].failed
    /\ pc["season"] = "send"
    /\ loc.season.month = 7
    /\ SeasonEnqueued(2) = <<Message("cron/season", "summer", TRUE)>>

\* C16: every message of the season, day-phase and daylight loops has
\* retain true and every message of the weather loop has retain false: the
\* messages a producer holds at its send, those MessageLoop has received,
\* and the retain argument of their publish.
C16_RetainBySource ==
    /\ \A p \in Producers :
           \A k \in 1..Len(out[p].msgs) : out[p].msgs[k].retain = (p # "weather")
    /\ \A i \in 1..Len(received) :
           received[i].msg.retain = (received[i].src # "weather")
    /\ \A i \in 1..Len(broker) :
           broker[i].retain = (received[i].src # "weather")

\* a weather reading and a message of another loop were both published
C16_Witness ==
    \E i, j \in 1..Len(broker) :
        /\ received[i].src = "weather"
        /\ ~broker[i].retain
        /\ received[j].src \in {"season", "dayphase", "daylight"}
        /\ broker[j].retain

\* C20: the channel is never closed, so MessageLoop never returns: main has
\* not reached c.Disconnect and has not returned, and the process runs or has
\* ended through log.Fatal or logger.Panic.
C20_PublisherNeverReturns ==
    /\ ~Closed
    /\ pubPc # "returned"
    /\ exit \in {"running", "fatal", "panic"}

\* every producer has returned and MessageLoop still waits in its receive
C20_Witness ==
    /\ \A p \in Producers : pc[p] = "returned"
    /\ pubPc = "recv"
    /\ Running

-----------------------------------------------------------------------------
(* Properties of the startup and of the publisher *)

\* something of the producers or of the publisher has happened
SomethingStarted ==
    \/ \E p \in Producers : pc[p] # "unborn"
    \/ pubPc # "idle"
    \/ nsent # 0
    \/ received # <<>>
    \/ broker # <<>>

\* C21: no producer is started and nothing is sent or published unless
\* MQTT_HOST was present and the connect succeeded; when MQTT_HOST is absent
\* or the connect fails, the process has ended with no producer started and
\* no publish.
C21_StartupOrdering ==
    /\ SomethingStarted =>
           /\ env.MQTT_HOST.read /\ env.MQTT_HOST.exists
           /\ mainPc \in {"go", "loop"}
    /\ (env.MQTT_HOST.read /\ ~env.MQTT_HOST.exists) =>
           /\ exit = "fatal" /\ fatalBy = "main"
           /\ ~SomethingStarted
    /\ exit = "panic" =>
           /\ fatalBy = "main" /\ mainPc = "connect"
           /\ ~SomethingStarted

\* the connect failed: the process has ended with MQTT_HOST present and
\* nothing started
C21_Witness ==
    /\ exit = "panic"
    /\ env.MQTT_HOST.exists
    /\ \A p \in Producers : pc[p] = "unborn"
    /\ broker = <<>>

\* C22: MessageLoop receives the next message only when the publish of the
\* previous one is over: at most one received message is unpublished, and
\* only while MessageLoop is at its publish; the publishes are those of the
\* received messages, in the order of their receipt.
C22_OnePublishInFlight ==
    /\ Len(broker) <= Len(received)
    /\ Len(received) <= Len(broker) + 1
    /\ Running => ((Len(received) = Len(broker) + 1) <=> (pubPc = "publish"))
    /\ pubPc = "publish" => cur = received[Len(received)].msg
    /\ \A i \in 1..Len(broker) :
           /\ broker[i].topic = prefix \o "/" \o received[i].msg.topic
           /\ broker[i].payload = received[i].msg.payload
    /\ \A i \in 1..Len(plog) : plog[i].topic = broker[i].topic

\* a second message is at its publish while a producer waits in its send
C22_Witness ==
    /\ pubPc = "publish"
    /\ Len(broker) = 1
    /\ Len(received) = 2
    /\ \E p \in Producers : pc[p] = "send"

-----------------------------------------------------------------------------
(* Progress *)

\* The goroutines of main and MessageLoop run whenever they can; the sender
\* of a channel send that is possible again and again is chosen in the end,
\* as the runtime serves the senders blocked on a channel in the order of
\* their arrival.
Fairness ==
    /\ WF_vars(mainGo)
    /\ WF_vars(MessageLoopEnter)
    /\ WF_vars(MessageLoopPublish)
    /\ \A p \in Producers : SF_vars(Send(p))

\* the four loops with one reading of the clock and one answer of each API
NextLive ==
    \/ mainLookupEnv({Absent})
    \/ mainConnect
    \/ mainGo
    \/ MessageLoopEnter
    \/ MessageLoopPublish
    \/ \E p \in Producers : Send(p)
    \/ SeasonLoopStart
    \/ SeasonLoopTick({7})
    \/ DayPhaseLoopStart
    \/ DayPhaseLoopTick({13}, {7})
    \/ DayLightLoopStart
    \/ DayLightLoopTick(ProgramDayLight, {2})
    \/ WeatherLoopStart(RegionLookups)
    \/ WeatherLoopTick({<<StationUtrecht, StationHolland>>})

SpecLive == Init /\ [][NextLive]_vars /\ Fairness

\* producer p has a message of its iteration that is not received, or its
\* last received message is not published
Undelivered(p) ==
    \/ pc[p] = "send"
    \/ /\ pubPc = "publish"
       /\ received[Len(received)].src = p

-----------------------------------------------------------------------------
(* Blocked sends *)

Blocked == {p \in Producers : pc[p] = "send"}

\* what producer p holds of its iteration: one message at its send, after
\* those already accepted
OneWaiting(p) ==
    LET accepted == ReceivedOf(p, out[p].tick)
    IN  /\ out[p].idx \in 1..Len(out[p].msgs)
        /\ Len(accepted) < Len(out[p].plan)
        /\ Sending(out[p]) = out[p].plan[Len(accepted) + 1]
        /\ \A i \in 1..Len(chan) : chan[i].src # p

\* C24: a producer has one message waiting at its send at most, and begins
\* its next iteration only when every message of the current one has been
\* accepted by MessageLoop; so no more sends are blocked than there are
\* producers, four.
C24_OneBlockedSendPerProducer ==
    /\ [](/\ \A p \in Blocked : OneWaiting(p)
          /\ \A p \in Producers \ Blocked :
                 /\ out[p].msgs = <<>>
                 /\ ReceivedOf(p, out[p].tick) = out[p].plan
          /\ Cardinality(Blocked) + Len(chan) <= Len(GoOrder)
          /\ nsent = Len(received))
    /\ [][\A p \in Producers :
              out'[p].tick # out[p].tick =>
                  /\ p \notin Blocked
                  /\ ReceivedOf(p, out[p].tick) = out[p].plan]_vars

\* the weather loop waits with the second message of its iteration and
\* another loop with its message, while MessageLoop publishes
C24_Witness ==
    /\ Cardinality(Blocked) = 2
    /\ "weather" \in Blocked
    /\ Len(ReceivedOf("weather", out["weather"].tick)) = 1
    /\ pubPc = "publish"

-----------------------------------------------------------------------------
(* Everything disabled *)

\* the loop of p has looked up its variables and found its topic missing, or,
\* for the weather, its region
Disabled(p) ==
    /\ TopicOf(p).read
    /\ \/ ~TopicOf(p).exists
       \/ p = "weather" /\ ~env.WEATHER_REGION.exists

====
